---- MODULE Spec2Model ----
(***************************************************************************)
(* The patient and doctor dashboard controllers of the clinic-assistant   *)
(* frontend (PatientDashboard.js, DoctorDashboard.js): the chat           *)
(* round-trip, the prompt-history refresh and the doctor's slot draft.    *)
(*                                                                         *)
(* A text is a sequence of tokens; the token " " is whitespace and every  *)
(* other token is a run of non-whitespace-delimited content.  Each React  *)
(* event handler runs to its next await in one step; the code after an    *)
(* await is the step that consumes the server's answer.                    *)
(***************************************************************************)
EXTENDS Integers, Sequences, FiniteSets, TLC

\* Bounds of the exploration.
MaxSends == 2
MaxSlots == 2
MaxSubmits == 1

----------------------------------------------------------------------------
\* Values

WhiteSpace == {" "}

\* JavaScript's undefined (a field the server's payload lacks).
Undefined == <<"\\undefined">>

RECURSIVE trimStart(_)
trimStart(s) ==
    IF s # <<>> /\ Head(s) \in WhiteSpace THEN trimStart(Tail(s)) ELSE s

RECURSIVE trimEnd(_)
trimEnd(s) ==
    IF s # <<>> /\ s[Len(s)] \in WhiteSpace
    THEN trimEnd(SubSeq(s, 1, Len(s) - 1))
    ELSE s

\* String.prototype.trim
trim(s) == trimEnd(trimStart(s))

\* JavaScript truthiness of a string-or-undefined value.
Truthy(v) == v # Undefined /\ v # <<>>

Roles == {"patient", "doctor"}

Emails == {"a@b.c"}

Instants == {1724457600}

\* `${role}_${user.email}_${Date.now()}`
SessionIdOf(r, email, now) == r \o "_" \o email \o "_" \o ToString(now)

\* The tabs each dashboard's nav renders, and the tab that shows the chat.
TabsOf(r) == IF r = "patient" THEN {"chat", "history"}
             ELSE {"slots", "stats", "history"}

InitialTab(r) == IF r = "patient" THEN "chat" ELSE "slots"

ChatTab(r) == IF r = "patient" THEN "chat" ELSE "stats"

quickActions ==
    << <<"Check Dr. Ahuja availability for 2025-08-24">>,
       <<"Show my appointments today">>,
       <<"Book appointment with Dr. Ahuja on 2025-08-24 at 2PM-3PM">> >>

quickStatsQueries ==
    << <<"How many appointments today?">>,
       <<"Show appointments for today">>,
       <<"How many patients visited yesterday?">>,
       <<"Show fever patients">> >>

QuickOf(r) == IF r = "patient" THEN quickActions ELSE quickStatsQueries

\* The quick-action buttons the user clicks (positions in the lists above).
QuickClicks == {2}

\* What the user may leave in the chat textarea by typing.
ChatInputs == { <<>>, <<" ">>, <<" ", "hi">> }

\* What the user may type into a slot field, and pick in the date input.
SlotInputs == { <<>>, <<" ">>, <<"9AM-10AM">>, <<" ", "2PM-3PM", " ">> }

DateInputs == { <<>>, <<"2025-08-24">> }

\* Fallback and fixed messages.
ChatFallback == <<"Error processing message">>

SlotFallback == <<"Error adding slots">>

SlotPrompt == <<"Please provide date and at least one time slot">>

SlotSuccess == <<"Appointment slots added successfully!">>

\* Server payloads.
Responses == { <<"You have 2 appointments.">> }

Details == { <<"Not authenticated">> }

HistoryPayloads == { <<"rec1">>, <<"rec2", "rec1">> }

\* How a request may settle: axios resolves (ok) with a response whose data
\* may be missing, or rejects with an error that may carry a response.
PromptOutcomes ==
    { [ok |-> TRUE, hasResponse |-> TRUE, hasData |-> TRUE,
       response |-> r, detail |-> Undefined] : r \in Responses \cup {Undefined} }
    \cup
    { [ok |-> TRUE, hasResponse |-> TRUE, hasData |-> FALSE,
       response |-> Undefined, detail |-> Undefined] }
    \cup
    { [ok |-> FALSE, hasResponse |-> TRUE, hasData |-> TRUE,
       response |-> Undefined, detail |-> d] :
         d \in Details \cup {Undefined, <<>>} }
    \cup
    { [ok |-> FALSE, hasResponse |-> FALSE, hasData |-> FALSE,
       response |-> Undefined, detail |-> Undefined] }

----------------------------------------------------------------------------
VARIABLES
    role,           \* user.role, which dashboard App renders
    sessionId,      \* useState(() => `..._${Date.now()}`)
    mounted,        \* the mount effect has run
    activeTab,
    chatMessage,    \* the input buffer
    chatHistory,    \* the Chat Turn sequence
    loading,        \* the in-flight flag
    history,        \* the cached History Record collection
    newSlot,        \* the Slot Draft (doctor)
    promptReqs,     \* outstanding POST process_prompt requests
    historyReqs,    \* number of outstanding GET prompt_history requests
    apptReqs,       \* outstanding POST appointments requests
    promptIssued,   \* requests dispatched so far, per endpoint
    historyIssued,
    apptIssued,
    alertMsg,       \* the text of the last alert()
    last            \* the event handled by the last step

vars == << role, sessionId, mounted, activeTab, chatMessage, chatHistory,
           loading, history, newSlot, promptReqs, historyReqs, apptReqs,
           promptIssued, historyIssued, apptIssued, alertMsg, last >>

chatVars == << chatMessage, chatHistory, loading, promptReqs, promptIssued >>

histVars == << history, historyReqs, historyIssued >>

slotVars == << newSlot, apptReqs, apptIssued, alertMsg >>

EmptyDraft == [date |-> <<>>, slots |-> << <<>> >>]

Init ==
    /\ role \in Roles
    /\ \E e \in Emails, t \in Instants : sessionId = SessionIdOf(role, e, t)
    /\ mounted = FALSE
    /\ activeTab = InitialTab(role)
    /\ chatMessage = <<>>
    /\ chatHistory = <<>>
    /\ loading = FALSE
    /\ history = <<>>
    /\ newSlot = EmptyDraft
    /\ promptReqs = {}
    /\ historyReqs = 0
    /\ apptReqs = {}
    /\ promptIssued = 0
    /\ historyIssued = 0
    /\ apptIssued = 0
    /\ alertMsg = <<>>
    /\ last = "init"

----------------------------------------------------------------------------
\* History Synchronizer

\* fetchPromptHistory up to its await: the GET is dispatched.
fetchPromptHistory ==
    /\ historyReqs' = historyReqs + 1
    /\ historyIssued' = historyIssued + 1

\* Variant: a successful refresh adds its records to the cached ones.
historyAfter_Merge(h, ok, data) == IF ok THEN h \o data ELSE h

\* Variant: the catch block resets the cache.
historyAfter_ClearOnFail(h, ok, data) == IF ok THEN data ELSE <<>>

\* The cache after a refresh settles.
historyAfter(h, ok, data) == IF ok THEN data ELSE h

\* useEffect(() => { fetchPromptHistory(); }, [])
Mount ==
    /\ ~mounted
    /\ mounted' = TRUE
    /\ fetchPromptHistory
    /\ last' = "mount"
    /\ UNCHANGED << role, sessionId, activeTab, history, chatVars, slotVars >>

\* fetchPromptHistory after its await.
HistoryReply(ok, data) ==
    /\ historyReqs > 0
    /\ historyReqs' = historyReqs - 1
    /\ history' = historyAfter(history, ok, data)
    /\ last' = IF ok THEN "history:ok" ELSE "history:failed"
    /\ UNCHANGED << role, sessionId, mounted, activeTab, historyIssued,
                    chatVars, slotVars >>

----------------------------------------------------------------------------
\* Chat Interaction Engine

ChatShown == mounted /\ activeTab = ChatTab(role)

SetActiveTab(t) ==
    /\ mounted
    /\ t \in TabsOf(role)
    /\ activeTab' = t
    /\ last' = "tab"
    /\ UNCHANGED << role, sessionId, mounted, chatVars, histVars, slotVars >>

\* onChange of the textarea.
SetChatMessage(v) ==
    /\ ChatShown
    /\ chatMessage' = v
    /\ last' = "type"
    /\ UNCHANGED << role, sessionId, mounted, activeTab, chatHistory, loading,
                    promptReqs, promptIssued, histVars, slotVars >>

\* Variant: the quick action sends its canned string at once.
handleQuickAction_AndSend(action) ==
    /\ ChatShown
    /\ \E i \in DOMAIN QuickOf(role) : QuickOf(role)[i] = action
    /\ promptIssued < MaxSends
    /\ chatMessage' = <<>>
    /\ chatHistory' = Append(chatHistory, [type |-> "user", message |-> action])
    /\ loading' = TRUE
    /\ promptReqs' = promptReqs \cup
           { [id |-> promptIssued + 1, text |-> action, session_id |-> sessionId] }
    /\ promptIssued' = promptIssued + 1
    /\ last' = "quick"
    /\ UNCHANGED << role, sessionId, mounted, activeTab, histVars, slotVars >>

handleQuickAction(action) ==
    /\ ChatShown
    /\ \E i \in DOMAIN QuickOf(role) : QuickOf(role)[i] = action
    /\ chatMessage' = action
    /\ last' = "quick"
    /\ UNCHANGED << role, sessionId, mounted, activeTab, chatHistory, loading,
                    promptReqs, promptIssued, histVars, slotVars >>

\* Variant: the early return tests the buffer without trimming it.
sendRejects_NoTrim(msg) == msg = <<>>

\* The early return of sendMessage: if (!chatMessage.trim()) return;
sendRejects(msg) == trim(msg) = <<>>

\* Variants: the identifier is recomputed at each render instead of being
\* held in state; the request carries the trimmed text.
requestBody_FreshSession(msg, sid) ==
    [text |-> msg,
     session_id |-> SessionIdOf(role, "a@b.c", 1724457600 + promptIssued)]

requestBody_Trimmed(msg, sid) == [text |-> trim(msg), session_id |-> sid]

\* { text: userMessage, session_id: sessionId }
requestBody(msg, sid) == [text |-> msg, session_id |-> sid]

\* sendMessage up to its await; `via` labels the trigger.
sendMessage(via) ==
    IF sendRejects(chatMessage)
    THEN /\ last' = via \o ":blank"
         /\ UNCHANGED << role, sessionId, mounted, activeTab, chatVars,
                         histVars, slotVars >>
    ELSE /\ promptIssued < MaxSends
         /\ chatMessage' = <<>>
         /\ chatHistory' = Append(chatHistory,
                                  [type |-> "user", message |-> chatMessage])
         /\ loading' = TRUE
         /\ promptReqs' = promptReqs \cup
                { [id |-> promptIssued + 1,
                   text |-> requestBody(chatMessage, sessionId).text,
                   session_id |-> requestBody(chatMessage, sessionId).session_id] }
         /\ promptIssued' = promptIssued + 1
         /\ last' = via \o ":sent"
         /\ UNCHANGED << role, sessionId, mounted, activeTab, histVars,
                         slotVars >>

\* disabled={loading || !chatMessage.trim()}
sendDisabled == loading \/ trim(chatMessage) = <<>>

ClickSend ==
    /\ ChatShown
    /\ ~sendDisabled
    /\ sendMessage("click")

\* handleKeyPress: Enter without Shift sends, anything else passes through.
handleKeyPress(key, shiftKey) ==
    /\ ChatShown
    /\ IF key = "Enter" /\ ~shiftKey
       THEN sendMessage("enter")
       ELSE /\ last' = "key"
            /\ UNCHANGED << role, sessionId, mounted, activeTab, chatVars,
                            histVars, slotVars >>

\* The turn sendMessage appends once its request settles.
replyTurn(o) ==
    IF o.ok /\ o.hasData
    THEN [type |-> "assistant", message |-> o.response]
    ELSE [type |-> "error",
          message |-> IF ~o.ok /\ o.hasResponse /\ o.hasData /\ Truthy(o.detail)
                      THEN o.detail ELSE ChatFallback]

\* Variant: the catch block logs the failure and appends nothing.
historyWithReply_SilentFail(h, o) ==
    IF o.ok /\ o.hasData THEN Append(h, replyTurn(o)) ELSE h

\* setChatHistory(prev => [...prev, turn])
historyWithReply(h, o) == Append(h, replyTurn(o))

\* Variant: the refresh sits after the try/catch.
refreshesHistory_Always(o) == TRUE

\* Whether the settled request reaches fetchPromptHistory().
refreshesHistory(o) == o.ok /\ o.hasData

\* Variants: setLoading(false) as the last statement of the try block; and
\* a catch that handles only rejected requests, not a body-less success.
loadingAfterReply_InTry(o) == IF o.ok /\ o.hasData THEN FALSE ELSE loading

loadingAfterReply_NotOnThrow(o) == IF o.ok /\ ~o.hasData THEN loading ELSE FALSE

\* setLoading(false) after the try/catch.
loadingAfterReply(o) == FALSE

\* sendMessage after its await.
PromptReply(req, o) ==
    /\ req \in promptReqs
    /\ promptReqs' = promptReqs \ {req}
    /\ chatHistory' = historyWithReply(chatHistory, o)
    /\ IF refreshesHistory(o)
       THEN fetchPromptHistory
       ELSE UNCHANGED << historyReqs, historyIssued >>
    /\ loading' = loadingAfterReply(o)
    /\ last' = IF refreshesHistory(o) THEN "reply:ok" ELSE "reply:failed"
    /\ UNCHANGED << role, sessionId, mounted, activeTab, chatMessage,
                    promptIssued, history, slotVars >>

NextChat ==
    \/ Mount
    \/ \E t \in {"chat", "stats", "slots", "history"} : SetActiveTab(t)
    \/ \E v \in ChatInputs : SetChatMessage(v)
    \/ \E i \in QuickClicks : handleQuickAction(QuickOf(role)[i])
    \/ ClickSend
    \/ \E k \in {"Enter", "a"}, s \in BOOLEAN : handleKeyPress(k, s)
    \/ \E r \in promptReqs, o \in PromptOutcomes : PromptReply(r, o)
    \/ \E d \in HistoryPayloads : HistoryReply(TRUE, d)
    \/ HistoryReply(FALSE, Undefined)

SpecChat == Init /\ [][NextChat]_vars

----------------------------------------------------------------------------
\* Slot Draft Builder (doctor)

SlotsShown == mounted /\ role = "doctor" /\ activeTab = "slots"

\* onChange of the date input.
SetDate(d) ==
    /\ SlotsShown
    /\ newSlot' = [newSlot EXCEPT !.date = d]
    /\ last' = "date"
    /\ UNCHANGED << role, sessionId, mounted, activeTab, apptReqs, apptIssued,
                    alertMsg, chatVars, histVars >>

addSlotField ==
    /\ SlotsShown
    /\ Len(newSlot.slots) < MaxSlots
    /\ newSlot' = [newSlot EXCEPT !.slots = Append(@, <<>>)]
    /\ last' = "addSlot"
    /\ UNCHANGED << role, sessionId, mounted, activeTab, apptReqs, apptIssued,
                    alertMsg, chatVars, histVars >>

\* prev.slots.filter((_, i) => i !== index), positions counted from 1.
removeAt(slots, index) ==
    [k \in 1 .. (Len(slots) - (IF index \in DOMAIN slots THEN 1 ELSE 0)) |->
        IF k < index THEN slots[k] ELSE slots[k + 1]]

\* Variant: the Remove button is rendered for every slot field.
removeShown_Always(slots) == TRUE

\* {newSlot.slots.length > 1 && <button ...>Remove</button>}
removeShown(slots) == Len(slots) > 1

removeSlotField(index) ==
    /\ SlotsShown
    /\ removeShown(newSlot.slots)
    /\ index \in DOMAIN newSlot.slots
    /\ newSlot' = [newSlot EXCEPT !.slots = removeAt(@, index)]
    /\ last' = "removeSlot"
    /\ UNCHANGED << role, sessionId, mounted, activeTab, apptReqs, apptIssued,
                    alertMsg, chatVars, histVars >>

\* Variant: the map callback returns the value for every position.
updateAt_All(slots, index, value) == [k \in DOMAIN slots |-> value]

\* prev.slots.map((slot, i) => i === index ? value : slot)
updateAt(slots, index, value) ==
    [k \in DOMAIN slots |-> IF k = index THEN value ELSE slots[k]]

updateSlot(index, value) ==
    /\ SlotsShown
    /\ index \in DOMAIN newSlot.slots
    /\ newSlot' = [newSlot EXCEPT !.slots = updateAt(@, index, value)]
    /\ last' = "updateSlot"
    /\ UNCHANGED << role, sessionId, mounted, activeTab, apptReqs, apptIssued,
                    alertMsg, chatVars, histVars >>

\* Variant: the validation looks at the date alone.
submitRejects_DateOnly(draft) == draft.date = <<>>

\* !newSlot.date || newSlot.slots.every(slot => !slot.trim())
submitRejects(draft) ==
    \/ draft.date = <<>>
    \/ \A k \in DOMAIN draft.slots : trim(draft.slots[k]) = <<>>

IsNonBlank(slot) == trim(slot) # <<>>

\* { [newSlot.date]: newSlot.slots.filter(slot => slot.trim()) }
slotsData(draft) == draft.date :> SelectSeq(draft.slots, IsNonBlank)

\* addAppointmentSlots up to its await.
addAppointmentSlots ==
    /\ SlotsShown
    /\ IF submitRejects(newSlot)
       THEN /\ alertMsg' = SlotPrompt
            /\ last' = "submit:invalid"
            /\ UNCHANGED << newSlot, apptReqs, apptIssued >>
       ELSE /\ apptIssued < MaxSubmits
            /\ apptReqs' = apptReqs \cup
                   { [id |-> apptIssued + 1, slots |-> slotsData(newSlot)] }
            /\ apptIssued' = apptIssued + 1
            /\ last' = "submit:sent"
            /\ UNCHANGED << newSlot, alertMsg >>
    /\ UNCHANGED << role, sessionId, mounted, activeTab, chatVars, histVars >>

ApptOutcomes ==
    { [ok |-> TRUE, hasResponse |-> TRUE, detail |-> Undefined] }
    \cup
    { [ok |-> FALSE, hasResponse |-> TRUE, detail |-> d] :
        d \in Details \cup {Undefined, <<>>} }
    \cup
    { [ok |-> FALSE, hasResponse |-> FALSE, detail |-> Undefined] }

\* Variants: the reset sits after the try/catch; the reset is missing.
draftAfter_ResetAlways(draft, o) == EmptyDraft

draftAfter_NoReset(draft, o) == draft

\* The draft once the request settles: setNewSlot({ date: '', slots: [''] }).
draftAfter(draft, o) == IF o.ok THEN EmptyDraft ELSE draft

\* alert(...) of either branch.
alertAfter(o) ==
    IF o.ok THEN SlotSuccess
    ELSE IF o.hasResponse /\ Truthy(o.detail) THEN o.detail ELSE SlotFallback

\* addAppointmentSlots after its await.
ApptReply(req, o) ==
    /\ req \in apptReqs
    /\ apptReqs' = apptReqs \ {req}
    /\ newSlot' = draftAfter(newSlot, o)
    /\ alertMsg' = alertAfter(o)
    /\ last' = IF o.ok THEN "appt:accepted" ELSE "appt:rejected"
    /\ UNCHANGED << role, sessionId, mounted, activeTab, apptIssued,
                    chatVars, histVars >>

NextSlots ==
    \/ Mount
    \/ \E t \in {"chat", "stats", "slots", "history"} : SetActiveTab(t)
    \/ \E d \in DateInputs : SetDate(d)
    \/ addSlotField
    \/ \E i \in 1 .. MaxSlots + 1 : removeSlotField(i)
    \/ \E i \in 1 .. MaxSlots + 1, v \in SlotInputs : updateSlot(i, v)
    \/ addAppointmentSlots
    \/ \E r \in apptReqs, o \in ApptOutcomes : ApptReply(r, o)

SpecSlots == Init /\ [][NextSlots]_vars

Next == NextChat \/ NextSlots

Spec == Init /\ [][Next]_vars

----------------------------------------------------------------------------
\* Fairness: the backend answers or fails every dispatched process_prompt
\* request; nothing obliges the user to act.
PromptReplyTo(i) ==
    \E r \in promptReqs, o \in PromptOutcomes : r.id = i /\ PromptReply(r, o)

SpecChatFair ==
    SpecChat /\ \A i \in 1 .. MaxSends : WF_vars(PromptReplyTo(i))

----------------------------------------------------------------------------
\* Properties

SendLabels == {"click:sent", "click:blank", "enter:sent", "enter:blank"}

ReplyLabels == {"reply:ok", "reply:failed"}

IsBlank(text) == \A k \in DOMAIN text : text[k] \in WhiteSpace

IsReplyTurn(t) == t.type \in {"assistant", "error"}

Outstanding(i) == \E r \in promptReqs : r.id = i

CountTurns(types) ==
    Cardinality({k \in DOMAIN chatHistory : chatHistory[k].type \in types})

\* C1: while a chat round-trip is outstanding (loading is true), a further
\* trigger of sendMessage appends no turn and dispatches no request.
C1_NoSendWhileLoading ==
    [][(loading /\ last' \in SendLabels)
          => (chatHistory' = chatHistory /\ promptReqs' = promptReqs)]_vars

\* C2: the transcript alternates: a user turn is followed by a reply turn
\* or is the last turn, and no two reply turns are adjacent.
C2_TurnsAlternate ==
    /\ chatHistory # <<>> => chatHistory[1].type = "user"
    /\ \A k \in 1 .. Len(chatHistory) - 1 :
          (chatHistory[k].type = "user") # (chatHistory[k + 1].type = "user")

\* C3: an accepted sendMessage appends exactly one user turn carrying the
\* buffer; a settled request appends exactly one reply turn; and every
\* dispatched request is eventually settled with loading false.
C3_SendThenReply ==
    /\ [][(last' \in {"click:sent", "enter:sent"})
             => chatHistory' = Append(chatHistory,
                                     [type |-> "user", message |-> chatMessage])]_vars
    /\ [][(promptReqs' # promptReqs /\ promptReqs' \subseteq promptReqs)
             => /\ Cardinality(promptReqs) = Cardinality(promptReqs') + 1
                /\ Len(chatHistory') = Len(chatHistory) + 1
                /\ SubSeq(chatHistory', 1, Len(chatHistory)) = chatHistory
                /\ IsReplyTurn(chatHistory'[Len(chatHistory')])]_vars
    /\ \A i \in 1 .. MaxSends :
          Outstanding(i) ~> (~Outstanding(i) /\ ~loading)

C3_Witness ==
    /\ last = "reply:failed"
    /\ promptIssued = 1
    /\ promptReqs = {}
    /\ ~loading
    /\ Len(chatHistory) = 2
    /\ chatHistory[1] = [type |-> "user", message |-> <<" ", "hi">>]
    /\ chatHistory[2].type = "error"

\* C4: every way a round-trip ends leaves loading false, loading is false
\* whenever no request is outstanding, and the Send button is then enabled
\* for a non-blank buffer.
C4_LoadingCleared ==
    /\ last \in ReplyLabels => ~loading
    /\ promptReqs = {} => ~loading
    /\ (promptReqs = {} /\ ~IsBlank(chatMessage)) => ~sendDisabled

C4_Witness ==
    /\ last = "reply:failed"
    /\ promptReqs = {}
    /\ chatHistory[Len(chatHistory)] =
          [type |-> "error", message |-> ChatFallback]
    /\ ~IsBlank(chatMessage)

\* C5: no reply turn carries an undefined message; a reply whose body
\* lacks the response field is rendered as an error turn with the fallback.
C5_NoUndefinedReply ==
    \A k \in DOMAIN chatHistory :
        IsReplyTurn(chatHistory[k]) => chatHistory[k].message # Undefined

\* C6: sendMessage on an empty or whitespace-only buffer changes nothing:
\* transcript, loading, buffer, history cache, and no request is dispatched.
C6_BlankSendIsNoOp ==
    [][(last' \in SendLabels /\ IsBlank(chatMessage))
          => UNCHANGED << chatHistory, loading, chatMessage, history,
                          promptReqs, promptIssued, historyReqs,
                          historyIssued >>]_vars

C6_Witness ==
    /\ last = "enter:blank"
    /\ chatMessage = <<" ">>
    /\ promptIssued = 0

\* C7: the history refresh is dispatched once at mount and once per
\* assistant turn appended, never otherwise.
C7_RefreshCount ==
    historyIssued = (IF mounted THEN 1 ELSE 0) + CountTurns({"assistant"})

C7_Witness ==
    /\ historyIssued = 2
    /\ CountTurns({"assistant"}) = 1
    /\ CountTurns({"error"}) = 1
    /\ promptReqs = {}

\* C8: a failed history refresh leaves the cache and every other piece of
\* controller state as it was.
C8_FailedRefreshKeepsCache ==
    [][(last' = "history:failed")
          => UNCHANGED << history, chatVars, slotVars, activeTab,
                          sessionId >>]_vars

C8_Witness ==
    /\ last = "history:failed"
    /\ history = <<"rec2", "rec1">>

\* C9 as stated: removing from a single-element slot sequence changes
\* nothing.
C9_RemoveOnSingleIsNoOp ==
    Len(newSlot.slots) = 1 => removeAt(newSlot.slots, 1) = newSlot.slots

\* C9: removal happens only from a sequence of more than one slot and takes
\* away exactly one, and the slot sequence is never empty.
C9_SlotsNeverEmpty ==
    /\ [](Len(newSlot.slots) >= 1)
    /\ [][(last' = "removeSlot")
             => /\ Len(newSlot.slots) > 1
                /\ Len(newSlot'.slots) = Len(newSlot.slots) - 1]_vars

C9_Witness ==
    /\ last = "removeSlot"
    /\ Len(newSlot.slots) = 1
    /\ apptIssued = 1

\* C10: submit with an empty date or only blank slots dispatches nothing
\* and leaves the draft alone; a dispatch needs a date and a non-blank slot.
C10_SubmitValidation ==
    [][/\ (last' \in {"submit:invalid", "submit:sent"}
             /\ (newSlot.date = <<>>
                   \/ \A k \in DOMAIN newSlot.slots : IsBlank(newSlot.slots[k])))
          => UNCHANGED << newSlot, apptReqs, apptIssued >>
       /\ (apptIssued' # apptIssued)
          => /\ newSlot.date # <<>>
             /\ \E k \in DOMAIN newSlot.slots : ~IsBlank(newSlot.slots[k])]_vars

C10_Witness ==
    /\ last = "submit:invalid"
    /\ newSlot.date = <<"2025-08-24">>
    /\ newSlot.slots = << <<" ">>, <<>> >>
    /\ apptIssued = 0

\* The slots a draft holds once blank ones are dropped and the rest trimmed.
RECURSIVE TrimmedNonBlank(_)
TrimmedNonBlank(slots) ==
    IF slots = <<>> THEN <<>>
    ELSE IF IsBlank(Head(slots)) THEN TrimmedNonBlank(Tail(slots))
    ELSE <<trim(Head(slots))>> \o TrimmedNonBlank(Tail(slots))

\* C11: the dispatched appointments request maps exactly the draft's date
\* to the draft's non-blank slots, each trimmed, in their original order.
C11_PayloadTrimmed ==
    [][(apptIssued' # apptIssued)
          => \E r \in apptReqs' \ apptReqs :
                /\ DOMAIN r.slots = {newSlot.date}
                /\ r.slots[newSlot.date] = TrimmedNonBlank(newSlot.slots)]_vars

\* A draft that passes the submit validation, stated on the draft itself.
DraftComplete(draft) ==
    /\ draft.date # <<>>
    /\ \E k \in DOMAIN draft.slots : ~IsBlank(draft.slots[k])

C13_AcceptanceResetsDraft ==
    /\ [](last = "appt:accepted" => newSlot = EmptyDraft /\ alertMsg = SlotSuccess)
    /\ [][(last' = "submit:sent")
             => (newSlot' = newSlot /\ newSlot' # EmptyDraft)]_vars
    /\ [][(newSlot' = EmptyDraft /\ newSlot # EmptyDraft
             /\ last' \notin {"date", "removeSlot", "updateSlot"})
             => last' = "appt:accepted"]_vars

C13_Witness ==
    /\ last = "appt:accepted"
    /\ newSlot = EmptyDraft
    /\ alertMsg = SlotSuccess
    /\ apptIssued = 1
    /\ apptReqs = {}

\* C19: updateSlot replaces one slot in place and addSlotField appends one
\* empty slot; the other slots, the date, the requests and the chat state
\* stay as they were, and an out-of-range position changes no slot.
C19_SlotEditFrame ==
    /\ [](\A v \in SlotInputs :
             /\ updateAt(newSlot.slots, 0, v) = newSlot.slots
             /\ updateAt(newSlot.slots, Len(newSlot.slots) + 1, v) = newSlot.slots)
    /\ [][(last' = "updateSlot")
             => /\ \E i \in DOMAIN newSlot.slots, v \in SlotInputs :
                      newSlot'.slots = [newSlot.slots EXCEPT ![i] = v]
                /\ newSlot'.date = newSlot.date
                /\ UNCHANGED << apptReqs, apptIssued, alertMsg, chatVars,
                                histVars >>]_vars
    /\ [][(last' = "addSlot")
             => /\ newSlot'.slots = newSlot.slots \o << <<>> >>
                /\ newSlot'.date = newSlot.date
                /\ UNCHANGED << apptReqs, apptIssued, alertMsg, chatVars,
                                histVars >>]_vars

C19_Witness ==
    /\ last = "updateSlot"
    /\ newSlot = [date |-> <<"2025-08-24">>,
                  slots |-> << <<"9AM-10AM">>, <<" ", "2PM-3PM", " ">> >>]
    /\ apptReqs # {}

\* C14: the session identifier is the one made at mount, with the role
\* prefix of its dashboard, and every outstanding process_prompt request
\* carries it, however many were sent and however they settled.
C14_SessionIdStable ==
    /\ sessionId = (IF role = "patient" THEN "patient_a@b.c_1724457600"
                                        ELSE "doctor_a@b.c_1724457600")
    /\ \A r \in promptReqs : r.session_id = sessionId

C14_Witness ==
    /\ role = "doctor"
    /\ promptIssued = 2
    /\ \E r \in promptReqs :
          r.id = 2 /\ r.session_id = "doctor_a@b.c_1724457600"
    /\ CountTurns({"error"}) = 1

\* C15: a quick action puts its canned string into the input buffer and
\* does nothing else: no turn, no request, loading, the history cache and
\* the slot draft as they were, also while a round-trip is outstanding.
C15_QuickActionFrame ==
    [][(last' = "quick")
          => /\ \E i \in DOMAIN QuickOf(role) : chatMessage' = QuickOf(role)[i]
             /\ UNCHANGED << chatHistory, loading, promptReqs, promptIssued,
                             history, historyReqs, historyIssued, newSlot,
                             apptReqs, apptIssued, activeTab >>]_vars

C15_Witness ==
    /\ last = "quick"
    /\ loading
    /\ promptReqs # {}
    /\ chatMessage = <<"Show my appointments today">>
    /\ Len(chatHistory) = 1

LastTurn == chatHistory[Len(chatHistory)]

\* C16: right after an accepted sendMessage has dispatched its request the
\* buffer is empty, the user turn with the text is the last turn, loading
\* is true and the request carries that turn's text; right after a
\* successful reply the assistant turn is in place and its refresh is out.
C16_SendOrder ==
    /\ last \in {"click:sent", "enter:sent"}
          => /\ chatMessage = <<>>
             /\ loading
             /\ chatHistory # <<>>
             /\ LastTurn.type = "user"
             /\ ~IsBlank(LastTurn.message)
             /\ \E r \in promptReqs :
                   r.id = promptIssued /\ r.text = LastTurn.message
    /\ last = "reply:ok"
          => /\ chatHistory # <<>>
             /\ LastTurn.type = "assistant"
             /\ historyReqs >= 1

C16_Witness ==
    /\ last = "enter:sent"
    /\ LastTurn = [type |-> "user", message |-> <<" ", "hi">>]
    /\ \E r \in promptReqs : r.id = 2 /\ r.text = <<" ", "hi">>

\* C17: with refreshes overlapping, each successful completion makes the
\* cache exactly that response's payload, so the cache is always the
\* initial empty collection or one whole payload, never a mix of two.
C17_LastCompletionWins ==
    /\ [](history \in {<<>>} \cup HistoryPayloads)
    /\ [](last = "history:ok" => history \in HistoryPayloads)
    /\ [][\A d \in HistoryPayloads :
             HistoryReply(TRUE, d) => history' = d]_vars

C17_Witness ==
    /\ last = "history:ok"
    /\ history = <<"rec1">>
    /\ historyIssued = 3
    /\ historyReqs = 1

\* C18: while a process_prompt request is outstanding, loading is true.
C18_LoadingWhileOutstanding ==
    promptReqs # {} => loading

CountIn(n, types) ==
    Cardinality({k \in 1 .. n : chatHistory[k].type \in types})

\* C20: user turns minus reply turns equals the number of outstanding
\* process_prompt requests, also with sends overlapping; every reply turn
\* has its own earlier user turn; and the transcript only grows at its end.
C20_TurnsMatchRequests ==
    /\ [](CountTurns({"user"}) - CountTurns({"assistant", "error"})
             = Cardinality(promptReqs))
    /\ [](\A n \in 1 .. Len(chatHistory) :
             CountIn(n, {"assistant", "error"}) <= CountIn(n, {"user"}))
    /\ [][/\ Len(chatHistory') >= Len(chatHistory)
          /\ SubSeq(chatHistory', 1, Len(chatHistory)) = chatHistory]_vars

C20_Witness ==
    /\ Len(chatHistory) = 3
    /\ chatHistory[1].type = "user"
    /\ chatHistory[2].type = "user"
    /\ chatHistory[3].type = "error"
    /\ Cardinality(promptReqs) = 1

====
